---- MODULE Spec2Model ----
(***************************************************************************)
(* The DPLL SAT solver of src/solver.py as a state machine.                *)
(*                                                                         *)
(* Python objects are modelled with two heaps: `sets` holds the clause     *)
(* objects (Python set), `dicts` the assignment objects (Python dict).     *)
(* Clause lists and locals hold references (heap indexes), so that an      *)
(* in-place mutation of an object shared between a caller and a callee is  *)
(* visible to both, as it is in Python.  Python lists are only ever        *)
(* appended to while they are still private to the function that created   *)
(* them, so a list is modelled by its value: the sequence of references.   *)
(*                                                                         *)
(* The recursion of _dpll is the sequence `stack` of frames; the locals of *)
(* the two leaf functions _unit_propagate and _pure_literal_elim are the   *)
(* records `up` and `ple`.                                                 *)
(***************************************************************************)
EXTENDS Integers, Sequences, FiniteSets, TLC

\* ---- bounds of the model ------------------------------------------------
MaxVar == 2          \* literals are drawn from -MaxVar..MaxVar \ {0}
MaxClauses == 4      \* length of the input clause list of solve_cnf
MaxClauseLen == 2    \* number of distinct literals of one input clause
MaxUPClauses == 2    \* length of the clause list handed to _unit_propagate alone

\* ---- encodings of Python values -----------------------------------------
NoneVar == 0         \* best_var = None  (src/solver.py:158)
Unbound == -1        \* a local of _dpll that has not been assigned yet

Lits == {l \in -MaxVar..MaxVar : l # 0}
Vars == 1..MaxVar
ClauseSets == {c \in SUBSET Lits : Cardinality(c) <= MaxClauseLen}
SeqsUpTo(S, n) == UNION {[1..k -> S] : k \in 0..n}
PartialAssignments == UNION {[D -> BOOLEAN] : D \in SUBSET Vars}

abs(x) == IF x < 0 THEN -x ELSE x

\* dict: a function from its keys to their values; {} is the empty function
EmptyDict == <<>>
DictPut(a, var, val) ==
    [v \in (DOMAIN a) \cup {var} |-> IF v = var THEN val ELSE a[v]]
DictGet(a, v, default) == IF v \in DOMAIN a THEN a[v] ELSE default

\* the literal content of a clause list: what its references point to
Deref(h, cl) == [i \in 1..Len(cl) |-> h[cl[i]]]

VARIABLES
    binding,      \* what the module-level name solve_cnf is bound to
    phase,        \* "load245", "load264", "loaded", "running", "returned"
    via,          \* how the running call was made: "first" or "name"
    in_clauses,   \* argument clauses of the call
    num_vars,     \* argument num_vars of the call
    sets,         \* heap of set objects
    dicts,        \* heap of dict objects
    stack,        \* frames of _dpll, innermost last
    up,           \* locals of the running _unit_propagate
    ple,          \* locals of the running _pure_literal_elim
    result        \* what the call returned or raised

vars == <<binding, phase, via, in_clauses, num_vars, sets, dicts, stack, up, ple, result>>

\* ---- pure helpers of src/solver.py --------------------------------------

\* _is_satisfied_clause
_is_satisfied_clause(clause, assignment) ==
    \E lit \in clause :
        /\ abs(lit) \in DOMAIN assignment
        /\ \/ lit > 0 /\ assignment[abs(lit)]
           \/ lit < 0 /\ ~assignment[abs(lit)]

\* _contains_empty_clause
_contains_empty_clause(h, cl) == \E i \in 1..Len(cl) : Cardinality(h[cl[i]]) = 0

\* lines 42-45 of _unit_propagate: the literal of every clause of size 1, in list order
RECURSIVE UnitLitsFrom(_, _, _)
UnitLitsFrom(h, cl, i) ==
    IF i > Len(cl) THEN <<>>
    ELSE (IF Cardinality(h[cl[i]]) = 1
          THEN <<CHOOSE l \in h[cl[i]] : TRUE>>
          ELSE <<>>) \o UnitLitsFrom(h, cl, i + 1)

\* A variant of the loop of lines 66-81 that reports a conflict as soon as a clause
\* shrinks to one literal (len(new_c) <= 1 instead of == 0).
RECURSIVE UPSimplifyEagerFrom(_, _, _, _, _)
UPSimplifyEagerFrom(h, cl, lit, i, new_clauses) ==
    IF i > Len(cl) THEN [heap |-> h, clauses |-> new_clauses, conflict |-> FALSE]
    ELSE LET c == cl[i] IN
         IF lit \in h[c] THEN UPSimplifyEagerFrom(h, cl, lit, i + 1, new_clauses)
         ELSE IF -lit \in h[c]
              THEN LET h2 == Append(h, h[c] \ {-lit})
                       new_c == Len(h2)
                   IN  IF Cardinality(h2[new_c]) <= 1
                       THEN [heap |-> h2, clauses |-> new_clauses, conflict |-> TRUE]
                       ELSE UPSimplifyEagerFrom(h2, cl, lit, i + 1, Append(new_clauses, new_c))
              ELSE UPSimplifyEagerFrom(h, cl, lit, i + 1, Append(new_clauses, c))

UPSimplifyEager(h, cl, lit) == UPSimplifyEagerFrom(h, cl, lit, 1, <<>>)

\* A variant of the loop of lines 66-81 that keeps a clause containing -lit as it is
\* (the falsified literal is not removed).
RECURSIVE UPSimplifyKeepFrom(_, _, _, _)
UPSimplifyKeepFrom(h, cl, lit, i) ==
    IF i > Len(cl) THEN <<>>
    ELSE (IF lit \in h[cl[i]] THEN <<>> ELSE <<cl[i]>>) \o UPSimplifyKeepFrom(h, cl, lit, i + 1)

UPSimplifyKeep(h, cl, lit) ==
    [heap |-> h, clauses |-> UPSimplifyKeepFrom(h, cl, lit, 1), conflict |-> FALSE]

\* lines 66-81 of _unit_propagate: the simplification loop for one literal.
\* Returns the heap (set(c) allocates), the new list and whether line 77 returned.
RECURSIVE UPSimplifyFrom(_, _, _, _, _)
UPSimplifyFrom(h, cl, lit, i, new_clauses) ==
    IF i > Len(cl) THEN [heap |-> h, clauses |-> new_clauses, conflict |-> FALSE]
    ELSE LET c == cl[i] IN
         IF lit \in h[c] THEN UPSimplifyFrom(h, cl, lit, i + 1, new_clauses)
         ELSE IF -lit \in h[c]
              THEN LET h2 == Append(h, h[c] \ {-lit})
                       new_c == Len(h2)
                   IN  IF Cardinality(h2[new_c]) = 0
                       THEN [heap |-> h2, clauses |-> new_clauses, conflict |-> TRUE]
                       ELSE UPSimplifyFrom(h2, cl, lit, i + 1, Append(new_clauses, new_c))
              ELSE UPSimplifyFrom(h, cl, lit, i + 1, Append(new_clauses, c))

UPSimplify(h, cl, lit) == UPSimplifyFrom(h, cl, lit, 1, <<>>)

\* lines 128-135 of _pure_literal_elim: keep the clauses that do not contain lit
RECURSIVE PLDropFrom(_, _, _, _)
PLDropFrom(h, cl, lit, i) ==
    IF i > Len(cl) THEN <<>>
    ELSE (IF lit \in h[cl[i]] THEN <<>> ELSE <<cl[i]>>) \o PLDropFrom(h, cl, lit, i + 1)

PLDrop(h, cl, lit) == PLDropFrom(h, cl, lit, 1)

\* pos_occ / neg_occ (lines 97-108) and pos_count / neg_count (lines 145-156):
\* occurrences of a literal over the clauses, counted for unassigned variables only
Occ(h, cl, assignment, lit) ==
    IF abs(lit) \in DOMAIN assignment THEN 0
    ELSE Cardinality({i \in 1..Len(cl) : lit \in h[cl[i]]})

\* the keys of pos_occ and neg_occ
OccKeys(h, cl, assignment) ==
    {abs(l) : l \in UNION {h[cl[i]] : i \in 1..Len(cl)}} \ DOMAIN assignment

\* lines 110-119: one (var, val) per pure variable.  The loop walks a Python set of
\* small positive ints, which CPython iterates in increasing order.
RECURSIVE PureVarsFrom(_, _, _, _)
PureVarsFrom(h, cl, assignment, keys) ==
    IF keys = {} THEN <<>>
    ELSE LET var == CHOOSE v \in keys : \A w \in keys : v <= w
             p == Occ(h, cl, assignment, var)
             n == Occ(h, cl, assignment, -var)
             rest == PureVarsFrom(h, cl, assignment, keys \ {var})
         IN  IF p > 0 /\ n = 0 THEN <<<<var, TRUE>>>> \o rest
             ELSE IF n > 0 /\ p = 0 THEN <<<<var, FALSE>>>> \o rest
             ELSE rest

PureVars(h, cl, assignment) == PureVarsFrom(h, cl, assignment, OccKeys(h, cl, assignment))

\* lines 158-174 of _choose_branch_var: the scan of range(1, num_vars + 1)
RECURSIVE ChooseFrom(_, _, _, _, _, _)
ChooseFrom(h, cl, assignment, n_vars, var, best) ==
    IF var > n_vars THEN best
    ELSE IF var \in DOMAIN assignment
         THEN ChooseFrom(h, cl, assignment, n_vars, var + 1, best)
         ELSE LET p == Occ(h, cl, assignment, var)
                  n == Occ(h, cl, assignment, -var)
                  score == p + n
              IN  IF score > best.best_score
                  THEN ChooseFrom(h, cl, assignment, n_vars, var + 1,
                           [best_var |-> var, best_score |-> score, best_pref |-> (p >= n)])
                  ELSE ChooseFrom(h, cl, assignment, n_vars, var + 1, best)

\* A variant of _choose_branch_var whose best_score starts at 0, so that a variable
\* without occurrences is never chosen.
ChooseOccurringVar(h, cl, assignment, n_vars) ==
    ChooseFrom(h, cl, assignment, n_vars, 1,
               [best_var |-> NoneVar, best_score |-> 0, best_pref |-> TRUE])

_choose_branch_var(h, cl, assignment, n_vars) ==
    ChooseFrom(h, cl, assignment, n_vars, 1,
               [best_var |-> NoneVar, best_score |-> -1, best_pref |-> TRUE])

\* _simplify_after_assignment: returns the heap and the new list
RECURSIVE SimplifyFrom(_, _, _, _, _)
SimplifyFrom(h, cl, lit, i, new_clauses) ==
    IF i > Len(cl) THEN [heap |-> h, clauses |-> new_clauses]
    ELSE LET c == cl[i] IN
         IF lit \in h[c] THEN SimplifyFrom(h, cl, lit, i + 1, new_clauses)
         ELSE IF -lit \in h[c]
              THEN LET h2 == Append(h, h[c] \ {-lit})
                   IN  SimplifyFrom(h2, cl, lit, i + 1, Append(new_clauses, Len(h2)))
              ELSE SimplifyFrom(h, cl, lit, i + 1, Append(new_clauses, c))

\* A variant of _simplify_after_assignment that removes -lit from the clause object
\* itself (new_c = c instead of new_c = set(c)).
RECURSIVE SimplifyInPlaceFrom(_, _, _, _, _)
SimplifyInPlaceFrom(h, cl, lit, i, new_clauses) ==
    IF i > Len(cl) THEN [heap |-> h, clauses |-> new_clauses]
    ELSE LET c == cl[i] IN
         IF lit \in h[c] THEN SimplifyInPlaceFrom(h, cl, lit, i + 1, new_clauses)
         ELSE IF -lit \in h[c]
              THEN SimplifyInPlaceFrom([h EXCEPT ![c] = @ \ {-lit}], cl, lit, i + 1,
                                       Append(new_clauses, c))
              ELSE SimplifyInPlaceFrom(h, cl, lit, i + 1, Append(new_clauses, c))

SimplifyInPlace(h, cl, lit) == SimplifyInPlaceFrom(h, cl, lit, 1, <<>>)

\* A variant of _simplify_after_assignment that also drops the clauses containing -lit.
RECURSIVE SimplifyDropsFalsifiedFrom(_, _, _, _)
SimplifyDropsFalsifiedFrom(h, cl, lit, i) ==
    IF i > Len(cl) THEN <<>>
    ELSE (IF lit \in h[cl[i]] \/ -lit \in h[cl[i]] THEN <<>> ELSE <<cl[i]>>)
         \o SimplifyDropsFalsifiedFrom(h, cl, lit, i + 1)

SimplifyDropsFalsified(h, cl, lit) ==
    [heap |-> h, clauses |-> SimplifyDropsFalsifiedFrom(h, cl, lit, 1)]

_simplify_after_assignment(h, cl, lit) == SimplifyFrom(h, cl, lit, 1, <<>>)

\* lines 233-234 of _dpll: new_assignment = dict(assignment); new_assignment[var] = try_val
\* A variant of lines 233-234 that copies the assignment and forgets the branch variable.
BranchAssignmentForgets(assignment, var, try_val) == assignment

BranchAssignment(assignment, var, try_val) == DictPut(assignment, var, try_val)

\* A variant of _build_model whose default for an unassigned variable is True.
BuildModelDefaultTrue(assignment, n_vars) ==
    [v \in 1..n_vars |-> IF DictGet(assignment, v, TRUE) THEN v ELSE -v]

\* _build_model
_build_model(assignment, n_vars) ==
    [v \in 1..n_vars |-> IF DictGet(assignment, v, FALSE) THEN v ELSE -v]

\* _clauses_to_sets: one fresh set object per input clause
_clauses_to_sets(clauses) == [i \in 1..Len(clauses) |-> {l \in clauses[i] : TRUE}]

\* ---- records ------------------------------------------------------------
UpOff == [pc |-> "off", clauses |-> <<>>, assignment |-> 0, unit_lits |-> <<>>,
          i |-> 0, conflict |-> FALSE]
PleOff == [pc |-> "off", clauses |-> <<>>, assignment |-> 0, pure_vars |-> <<>>, i |-> 0]
NoResult == [status |-> "none", model |-> <<>>, model_is_none |-> TRUE]

NewFrame(cl, a) ==
    [pc |-> "unit", clauses |-> cl, assignment |-> a,
     var |-> Unbound, pref_val |-> TRUE, k |-> 0,
     ret_sat |-> FALSE, ret_assignment |-> 0,
     snap_clauses |-> <<>>, snap_assignment |-> EmptyDict]

Top == stack[Len(stack)]
SetTop(f) == [stack EXCEPT ![Len(stack)] = f]

\* ---- module load --------------------------------------------------------
Init ==
    /\ binding = "unbound"
    /\ phase = "load245"
    /\ via = "none"
    /\ in_clauses \in SeqsUpTo(ClauseSets, MaxClauses)
    /\ num_vars \in 0..MaxVar
    /\ sets = <<>>
    /\ dicts = <<>>
    /\ stack = <<>>
    /\ up = UpOff
    /\ ple = PleOff
    /\ result = NoResult

\* line 245: def solve_cnf (the implementation)
DefSolveCnf245 ==
    /\ phase = "load245"
    /\ binding' = "impl"
    /\ phase' = "load264"
    /\ UNCHANGED <<via, in_clauses, num_vars, sets, dicts, stack, up, ple, result>>

\* line 264: def solve_cnf again (the stub) rebinds the name
DefSolveCnf264 ==
    /\ phase = "load264"
    /\ binding' = "stub"
    /\ phase' = "loaded"
    /\ UNCHANGED <<via, in_clauses, num_vars, sets, dicts, stack, up, ple, result>>

\* ---- solve_cnf ----------------------------------------------------------
\* lines 256-257: clause_sets = _clauses_to_sets(clauses); _dpll(clause_sets, {}, num_vars)
EnterImpl ==
    /\ sets' = _clauses_to_sets(in_clauses)
    /\ dicts' = <<EmptyDict>>
    /\ stack' = <<NewFrame([i \in 1..Len(in_clauses) |-> i], 1)>>
    /\ phase' = "running"
    /\ UNCHANGED <<up, ple, result>>

\* a call of the first definition (lines 245-262)
Solve ==
    /\ phase = "loaded"
    /\ via' = "first"
    /\ EnterImpl
    /\ UNCHANGED <<binding, in_clauses, num_vars>>

\* a call through the module-level name solve_cnf
CallSolveCnf ==
    /\ phase = "loaded"
    /\ via' = "name"
    /\ IF binding = "stub"
       THEN /\ result' = [status |-> "NotImplementedError", model |-> <<>>,
                          model_is_none |-> TRUE]
            /\ phase' = "returned"
            /\ UNCHANGED <<sets, dicts, stack, up, ple>>
       ELSE EnterImpl
    /\ UNCHANGED <<binding, in_clauses, num_vars>>

\* ---- _unit_propagate ----------------------------------------------------
\* line 210 calling, lines 38-39: clauses = clauses[:]; assignment = dict(assignment)
DpllUnitPropagate ==
    /\ phase = "running"
    /\ stack # <<>>
    /\ Top.pc = "unit"
    /\ dicts' = Append(dicts, dicts[Top.assignment])
    /\ up' = [pc |-> "scan", clauses |-> Top.clauses, assignment |-> Len(dicts) + 1,
              unit_lits |-> <<>>, i |-> 0, conflict |-> FALSE]
    /\ stack' = SetTop([Top EXCEPT !.pc = "in_up"])
    /\ UNCHANGED <<binding, phase, via, in_clauses, num_vars, sets, ple, result>>

\* lines 40-48: collect the unit literals; none left ends the loop (line 86)
UPScan ==
    /\ up.pc = "scan"
    /\ LET unit_lits == UnitLitsFrom(sets, up.clauses, 1) IN
       IF unit_lits = <<>>
       THEN up' = [up EXCEPT !.pc = "done", !.conflict = FALSE, !.unit_lits = <<>>, !.i = 0]
       ELSE up' = [up EXCEPT !.pc = "for", !.unit_lits = unit_lits, !.i = 1]
    /\ UNCHANGED <<binding, phase, via, in_clauses, num_vars, sets, dicts, stack, ple, result>>

\* the next position of the for loop of line 50; past the end, back to the scan
UPAdvance(u) ==
    IF u.i + 1 > Len(u.unit_lits)
    THEN [u EXCEPT !.pc = "scan", !.i = 0, !.unit_lits = <<>>]
    ELSE [u EXCEPT !.i = u.i + 1]

\* lines 50-81: one iteration of the for loop over unit_lits
UPLit ==
    /\ up.pc = "for"
    /\ LET lit == up.unit_lits[up.i]
           var == abs(lit)
           val == (lit > 0)
           a == dicts[up.assignment]
       IN  IF var \in DOMAIN a
           THEN /\ IF a[var] # val
                   THEN up' = [up EXCEPT !.pc = "done", !.conflict = TRUE]
                   ELSE up' = UPAdvance(up)
                /\ UNCHANGED <<sets, dicts>>
           ELSE LET r == UPSimplify(sets, up.clauses, lit) IN
                /\ dicts' = [dicts EXCEPT ![up.assignment] = DictPut(a, var, val)]
                /\ sets' = r.heap
                /\ IF r.conflict
                   THEN up' = [up EXCEPT !.pc = "done", !.conflict = TRUE]
                   ELSE up' = UPAdvance([up EXCEPT !.clauses = r.clauses])
    /\ UNCHANGED <<binding, phase, via, in_clauses, num_vars, stack, ple, result>>

\* ---- _dpll, steps 1-2 ---------------------------------------------------
\* lines 210-214: take the result of _unit_propagate; a conflict returns (False, {}),
\* otherwise call _pure_literal_elim (lines 93-94 copy the list and the dict)
DpllAfterUnit ==
    /\ phase = "running"
    /\ stack # <<>>
    /\ Top.pc = "in_up"
    /\ up.pc = "done"
    /\ IF up.conflict
       THEN /\ dicts' = Append(dicts, EmptyDict)
            /\ stack' = SetTop([Top EXCEPT !.pc = "return",
                                           !.clauses = up.clauses,
                                           !.assignment = up.assignment,
                                           !.ret_sat = FALSE,
                                           !.ret_assignment = Len(dicts) + 1])
            /\ ple' = ple
       ELSE /\ dicts' = Append(dicts, dicts[up.assignment])
            /\ stack' = SetTop([Top EXCEPT !.pc = "in_ple",
                                           !.clauses = up.clauses,
                                           !.assignment = up.assignment])
            /\ ple' = [pc |-> "scan", clauses |-> up.clauses,
                       assignment |-> Len(dicts) + 1, pure_vars |-> <<>>, i |-> 0]
    /\ up' = UpOff
    /\ UNCHANGED <<binding, phase, via, in_clauses, num_vars, sets, result>>

\* ---- _pure_literal_elim -------------------------------------------------
\* lines 96-122: count the occurrences and list the pure variables
PLScan ==
    /\ ple.pc = "scan"
    /\ LET pure_vars == PureVars(sets, ple.clauses, dicts[ple.assignment]) IN
       IF pure_vars = <<>>
       THEN ple' = [ple EXCEPT !.pc = "done", !.pure_vars = <<>>, !.i = 0]
       ELSE ple' = [ple EXCEPT !.pc = "for", !.pure_vars = pure_vars, !.i = 1]
    /\ UNCHANGED <<binding, phase, via, in_clauses, num_vars, sets, dicts, stack, up, result>>

\* lines 125-135: one iteration of the for loop over pure_vars
PLVar ==
    /\ ple.pc = "for"
    /\ LET var == ple.pure_vars[ple.i][1]
           val == ple.pure_vars[ple.i][2]
           lit == IF val THEN var ELSE -var
           new_clauses == PLDrop(sets, ple.clauses, lit)
       IN  /\ dicts' = [dicts EXCEPT ![ple.assignment] = DictPut(@, var, val)]
           /\ IF ple.i + 1 > Len(ple.pure_vars)
              THEN ple' = [ple EXCEPT !.pc = "scan", !.clauses = new_clauses,
                                      !.pure_vars = <<>>, !.i = 0]
              ELSE ple' = [ple EXCEPT !.clauses = new_clauses, !.i = ple.i + 1]
    /\ UNCHANGED <<binding, phase, via, in_clauses, num_vars, sets, stack, up, result>>

\* ---- _dpll, steps 3-5 ---------------------------------------------------
\* lines 214-221: take the result of _pure_literal_elim, then the base cases
DpllAfterPure ==
    /\ phase = "running"
    /\ stack # <<>>
    /\ Top.pc = "in_ple"
    /\ ple.pc = "done"
    /\ LET f == [Top EXCEPT !.clauses = ple.clauses, !.assignment = ple.assignment] IN
       IF ple.clauses = <<>>
       THEN /\ stack' = SetTop([f EXCEPT !.pc = "return", !.ret_sat = TRUE,
                                         !.ret_assignment = ple.assignment])
            /\ dicts' = dicts
       ELSE IF _contains_empty_clause(sets, ple.clauses)
            THEN /\ stack' = SetTop([f EXCEPT !.pc = "return", !.ret_sat = FALSE,
                                              !.ret_assignment = Len(dicts) + 1])
                 /\ dicts' = Append(dicts, EmptyDict)
            ELSE /\ stack' = SetTop([f EXCEPT !.pc = "choose"])
                 /\ dicts' = dicts
    /\ ple' = PleOff
    /\ UNCHANGED <<binding, phase, via, in_clauses, num_vars, sets, up, result>>

\* lines 224-227: choose the branch variable; None returns (False, {})
DpllChoose ==
    /\ phase = "running"
    /\ stack # <<>>
    /\ Top.pc = "choose"
    /\ LET b == _choose_branch_var(sets, Top.clauses, dicts[Top.assignment], num_vars) IN
       IF b.best_var = NoneVar
       THEN /\ stack' = SetTop([Top EXCEPT !.pc = "return", !.var = NoneVar,
                                           !.pref_val = b.best_pref,
                                           !.ret_sat = FALSE,
                                           !.ret_assignment = Len(dicts) + 1])
            /\ dicts' = Append(dicts, EmptyDict)
       ELSE /\ stack' = SetTop([Top EXCEPT !.pc = "branch", !.var = b.best_var,
                                           !.pref_val = b.best_pref, !.k = 1])
            /\ dicts' = dicts
    /\ UNCHANGED <<binding, phase, via, in_clauses, num_vars, sets, up, ple, result>>

\* lines 230-239 (and 243 when the loop ends): one iteration of the polarity loop
DpllBranch ==
    /\ phase = "running"
    /\ stack # <<>>
    /\ Top.pc = "branch"
    /\ LET try_val == IF Top.k = 1 THEN Top.pref_val ELSE ~Top.pref_val
           lit == IF try_val THEN Top.var ELSE -Top.var
           d1 == Append(dicts, BranchAssignment(dicts[Top.assignment], Top.var, try_val))
           new_assignment == Len(d1)
           r == _simplify_after_assignment(sets, Top.clauses, lit)
           f == [Top EXCEPT !.snap_clauses = Deref(sets, Top.clauses),
                            !.snap_assignment = dicts[Top.assignment]]
       IN  /\ sets' = r.heap
           /\ IF _contains_empty_clause(r.heap, r.clauses)
              THEN IF Top.k = 1
                   THEN /\ stack' = SetTop([f EXCEPT !.k = 2])
                        /\ dicts' = d1
                   ELSE /\ stack' = SetTop([f EXCEPT !.pc = "return", !.ret_sat = FALSE,
                                                     !.ret_assignment = Len(d1) + 1])
                        /\ dicts' = Append(d1, EmptyDict)
              ELSE /\ stack' = Append(SetTop([f EXCEPT !.pc = "wait"]),
                                      NewFrame(r.clauses, new_assignment))
                   /\ dicts' = d1
    /\ UNCHANGED <<binding, phase, via, in_clauses, num_vars, up, ple, result>>

\* lines 239-243: a recursive call returns to its caller
DpllReturn ==
    /\ phase = "running"
    /\ Len(stack) >= 2
    /\ Top.pc = "return"
    /\ LET child == Top
           parent == stack[Len(stack) - 1]
           below == SubSeq(stack, 1, Len(stack) - 2)
       IN  IF child.ret_sat
           THEN /\ stack' = Append(below, [parent EXCEPT !.pc = "return", !.ret_sat = TRUE,
                                              !.ret_assignment = child.ret_assignment])
                /\ dicts' = dicts
           ELSE IF parent.k = 1
                THEN /\ stack' = Append(below, [parent EXCEPT !.pc = "branch", !.k = 2])
                     /\ dicts' = dicts
                ELSE /\ stack' = Append(below, [parent EXCEPT !.pc = "return",
                                                   !.ret_sat = FALSE,
                                                   !.ret_assignment = Len(dicts) + 1])
                     /\ dicts' = Append(dicts, EmptyDict)
    /\ UNCHANGED <<binding, phase, via, in_clauses, num_vars, sets, up, ple, result>>

\* lines 257-262: the outermost _dpll returns to solve_cnf
SolveReturn ==
    /\ phase = "running"
    /\ Len(stack) = 1
    /\ Top.pc = "return"
    /\ IF Top.ret_sat
       THEN result' = [status |-> "SAT",
                       model |-> _build_model(dicts[Top.ret_assignment], num_vars),
                       model_is_none |-> FALSE]
       ELSE result' = [status |-> "UNSAT", model |-> <<>>, model_is_none |-> TRUE]
    /\ phase' = "returned"
    /\ UNCHANGED <<binding, via, in_clauses, num_vars, sets, dicts, stack, up, ple>>

Next ==
    \/ DefSolveCnf245
    \/ DefSolveCnf264
    \/ Solve
    \/ CallSolveCnf
    \/ DpllUnitPropagate
    \/ UPScan
    \/ UPLit
    \/ DpllAfterUnit
    \/ PLScan
    \/ PLVar
    \/ DpllAfterPure
    \/ DpllChoose
    \/ DpllBranch
    \/ DpllReturn
    \/ SolveReturn

Spec == Init /\ [][Next]_vars

\* the interpreter keeps executing a sequential program: a step that can be taken is taken
FairSpec == Init /\ [][Next]_vars /\ WF_vars(Next)

\* ---- _unit_propagate on its own -----------------------------------------
\* The state right after lines 38-39 of a call _unit_propagate(clauses, assignment)
\* with any clause list and any partial assignment: dict 1 is the caller's, dict 2 the copy.
InitUP ==
    /\ binding = "stub"
    /\ phase = "loaded"
    /\ via = "none"
    /\ in_clauses = <<>>
    /\ num_vars = 0
    /\ \E cs \in SeqsUpTo(ClauseSets, MaxUPClauses) :
          /\ sets = cs
          /\ up = [pc |-> "scan", clauses |-> [i \in 1..Len(cs) |-> i], assignment |-> 2,
                   unit_lits |-> <<>>, i |-> 0, conflict |-> FALSE]
    /\ \E a \in PartialAssignments : dicts = <<a, a>>
    /\ stack = <<>>
    /\ ple = PleOff
    /\ result = NoResult

NextUP ==
    \/ UPScan
    \/ UPLit

SpecUP == InitUP /\ [][NextUP]_vars /\ WF_vars(NextUP)

\* ---- properties ---------------------------------------------------------

\* every literal of the input names a variable of 1..num_vars
LiteralsInRange ==
    \A i \in 1..Len(in_clauses) : \A lit \in in_clauses[i] : abs(lit) \in 1..num_vars

\* the input contract of section 6 of the specification
WellFormed == num_vars > 0 /\ LiteralsInRange

\* the first definition of solve_cnf has returned
Returned == phase = "returned" /\ via = "first"

ModelLits == {result.model[i] : i \in 1..Len(result.model)}

\* some total assignment of 1..num_vars satisfies every input clause
Satisfiable ==
    \E a \in [1..num_vars -> BOOLEAN] :
        \A i \in 1..Len(in_clauses) : _is_satisfied_clause(in_clauses[i], a)

\* the assignment the outermost _dpll returned
FinalAssignment == dicts[stack[1].ret_assignment]

\* C1 (soundness): when the literals are in range and solve returns "SAT", every input
\* clause has a literal that is an entry of the returned model.
C1_Soundness ==
    (Returned /\ LiteralsInRange /\ result.status = "SAT")
        => \A i \in 1..Len(in_clauses) : \E lit \in in_clauses[i] : lit \in ModelLits

\* a "SAT" answer for a formula that needed a branch decision
C1_Witness ==
    /\ Returned /\ LiteralsInRange /\ result.status = "SAT"
    /\ Len(in_clauses) = MaxClauses
    /\ stack[1].var \in 1..num_vars
    /\ \A i \in 1..Len(in_clauses) : Cardinality(in_clauses[i]) = 2

\* C2 (completeness): when the literals are in range, solve returns ("UNSAT", None)
\* exactly when no assignment of 1..num_vars satisfies all input clauses.
C2_Completeness ==
    (Returned /\ LiteralsInRange)
        => /\ result.status \in {"SAT", "UNSAT"}
           /\ (result.status = "UNSAT" /\ result.model_is_none) <=> ~Satisfiable

\* an "UNSAT" answer that both polarities of a branch decision were tried for
C2_Witness ==
    /\ Returned /\ LiteralsInRange /\ result.status = "UNSAT"
    /\ ~Satisfiable
    /\ stack[1].k = 2
    /\ \A i \in 1..Len(in_clauses) : in_clauses[i] # {}

\* C3 (totality of the model): a "SAT" model has exactly num_vars entries, the i-th being
\* +i when the final assignment maps i to True and -i otherwise; with an empty clause
\* list every entry is negative.
C3_Totality ==
    (Returned /\ result.status = "SAT")
        => /\ ~result.model_is_none
           /\ Len(result.model) = num_vars
           /\ \A i \in 1..num_vars :
                result.model[i] =
                    IF i \in DOMAIN FinalAssignment /\ FinalAssignment[i] THEN i ELSE -i
           /\ in_clauses = <<>> => \A i \in 1..num_vars : result.model[i] = -i

\* a "SAT" model with an entry for an assigned-true variable and one for a variable
\* that was never assigned
C3_Witness ==
    /\ Returned /\ result.status = "SAT" /\ num_vars = MaxVar
    /\ \E i \in 1..num_vars : i \in DOMAIN FinalAssignment /\ FinalAssignment[i]
    /\ \E i \in 1..num_vars : i \notin DOMAIN FinalAssignment

\* C4: a call through the name solve_cnf of the loaded module returns "SAT" or "UNSAT".
C4_PublicCallReturnsStatus ==
    (phase = "returned" /\ via = "name") => result.status \in {"SAT", "UNSAT"}

\* C5: on malformed input (a literal's variable above num_vars, or num_vars <= 0) solve
\* returns neither "SAT" nor "UNSAT", and never a "SAT" model that leaves an input
\* clause unsatisfied.
C5_MalformedReported ==
    (Returned /\ ~WellFormed)
        => /\ result.status \notin {"SAT", "UNSAT"}
           /\ result.status = "SAT"
                => \A i \in 1..Len(in_clauses) : \E lit \in in_clauses[i] : lit \in ModelLits

\* C6: _unit_propagate terminates on every clause list and partial assignment, with a
\* conflict or with a clause list that has no clause of size 1.
C6_UnitPropagateReachesFixpoint ==
    <>(/\ up.pc = "done"
       /\ up.conflict \/ UnitLitsFrom(sets, up.clauses, 1) = <<>>)

\* the frame has executed step 4 (the call of _choose_branch_var)
Chose(f) == f.var # Unbound

\* no unassigned variable of 1..num_vars occurs in the frame's clauses
NoOccurrence(f) ==
    \A v \in 1..num_vars :
        v \notin DOMAIN dicts[f.assignment]
            => /\ Occ(sets, f.clauses, dicts[f.assignment], v) = 0
               /\ Occ(sets, f.clauses, dicts[f.assignment], -v) = 0

\* every variable of 1..num_vars is assigned in the frame
AllAssigned(f) == \A v \in 1..num_vars : v \in DOMAIN dicts[f.assignment]

\* the frame returned (False, {}) from step 4, without entering the polarity loop
ReportedNoCandidate(f) ==
    f.var = NoneVar /\ f.pc = "return" /\ ~f.ret_sat /\ f.k = 0

BranchedOnLowestUnassigned(f) ==
    /\ f.var \in 1..num_vars
    /\ f.var \notin DOMAIN dicts[f.assignment]
    /\ \A v \in 1..(f.var - 1) : v \in DOMAIN dicts[f.assignment]
    /\ f.pref_val
    /\ f.k >= 1

Depth == IF stack = <<>> THEN 0 ELSE Len(stack) - 1

\* C8 (termination, bounded depth): when the literals are in range, the call returns,
\* the recursion is never deeper than num_vars, and every recursive call holds at least
\* one more assigned variable than its caller.
C8_TerminatesWithBoundedDepth ==
    /\ LiteralsInRange => <>(phase = "returned")
    /\ [](LiteralsInRange =>
            /\ Depth <= num_vars
            /\ \A d \in 2..Len(stack) :
                 Cardinality(DOMAIN dicts[stack[d].assignment])
                     > Cardinality(DOMAIN dicts[stack[d - 1].assignment]))

\* the recursion is num_vars deep, with two branch decisions
C8_Witness ==
    LiteralsInRange /\ num_vars = MaxVar /\ Depth = num_vars /\ Top.pc = "return"

\* the frame is suspended in the polarity loop after a sub-search was started
InSubSearch(f) == f.pc = "wait" \/ (f.pc = "branch" /\ f.k = 2)

\* C9 (sibling isolation): while a sub-search of step 5 runs and after it failed, the
\* literal content of the caller's clauses and the caller's assignment are what they were
\* when the sub-search started.
C9_SiblingIsolation ==
    \A d \in 1..Len(stack) :
        InSubSearch(stack[d])
            => /\ Deref(sets, stack[d].clauses) = stack[d].snap_clauses
               /\ dicts[stack[d].assignment] = stack[d].snap_assignment

\* the preferred polarity failed in a recursive call that changed both heaps, and the
\* caller is about to try the opposite polarity
C9_Witness ==
    /\ LiteralsInRange
    /\ stack # <<>>
    /\ Top.pc = "branch" /\ Top.k = 2
    /\ Top.snap_clauses # <<>>
    /\ Len(sets) > Len(in_clauses)

\* no clause of cl has a literal whose variable is a key of dict a
Clean(cl, a) ==
    \A i \in 1..Len(cl) : \A lit \in sets[cl[i]] : abs(lit) \notin DOMAIN dicts[a]

\* C10: on well-formed input, at the entry of every _dpll call, after every
\* single-literal simplification of _unit_propagate that is not a conflict, after every
\* pure-variable step and after _simplify_after_assignment, no clause of the current
\* clause set has a literal of an assigned variable.
C10_NoAssignedLiteral ==
    WellFormed
        => /\ \A d \in 1..Len(stack) :
                stack[d].pc # "return" => Clean(stack[d].clauses, stack[d].assignment)
           /\ (up.pc \in {"scan", "for"} \/ (up.pc = "done" /\ ~up.conflict))
                => Clean(up.clauses, up.assignment)
           /\ ple.pc # "off" => Clean(ple.clauses, ple.assignment)

\* _unit_propagate has assigned a literal and shortened a clause that is still there
C10_Witness ==
    /\ WellFormed
    /\ up.pc \in {"scan", "for"}
    /\ DOMAIN dicts[up.assignment] # {}
    /\ \E i \in 1..Len(up.clauses) : up.clauses[i] > Len(in_clauses)

====
